---- MODULE Spec2Model ----
(***************************************************************************)
(* The SFTP bridge (server/server.js) and the browser-side SFTP client     *)
(* (src/lib/sftpClient.js) as state machines.                              *)
(*                                                                         *)
(* Spec      : the bridge, several WebSocket channels, the ssh2 remote     *)
(*             connections it creates and their events.                    *)
(* SpecCmd   : the file commands against the sessions of channels that     *)
(*             connect at most once.                                       *)
(* SpecMsg   : SpecCmd with unknown and malformed messages.                *)
(* FairSpec  : life cycle, file commands and other messages, with the      *)
(*             fairness node's event loop gives pending callbacks.         *)
(* SpecIso   : every channel accepted, every message, every remote event. *)
(* SpecClient: one SFTPClient instance, its listener table, its timers     *)
(*             and the messages the bridge can send to it.                 *)
(* SpecSilent: the client's calls and timers when the bridge stays silent. *)
(* SpecCodec : one content through uploadFile, the bridge's upload_file and *)
(*             download_file, and the client's onFileContent.              *)
(* SpecStore : the Settings form, saveConnection, deleteConnection and the *)
(*             'sftp-connections' item of localStorage.                    *)
(* SpecUi    : the connection provider over the client: connectToServer,  *)
(*             disconnect, the 'disconnect' listener, timers and socket.   *)
(* SpecList  : one list_files command with a session: the path, readdir's  *)
(*             list, the entries and sizes the bridge replies with.        *)
(***************************************************************************)
EXTENDS Integers, Sequences, FiniteSets, TLC

\* ------------------------------------------------------------------ bounds
NumChannels == 2        \* WebSocket channels the bridge can accept
MaxOpen     == 1        \* channels accepted where one channel is studied
MaxConns    == 2        \* ssh2 Client objects the bridge creates
MaxPending  == 1        \* remote operations in flight on the bridge
MaxReq      == 3        \* client calls issued on the SFTPClient instance
MaxLen      == 3        \* bytes (or characters) of an uploaded content
MaxSaves    == 2        \* connections saved from the Settings form
MaxItems    == 2        \* items of a remote directory
MaxExp      == 5        \* file sizes reach 1024^MaxExp bytes

Channels == 1..NumChannels
ConnIds  == 1..MaxConns
Null     == 0

VARIABLES
  \* ---- bridge (server/server.js)
  ws,                 \* per channel: "none" | "open" | "closed"
  sftpClient,         \* per channel: the closure variable, a ConnId or Null
  activeConnections,  \* the Map: channel identity -> [client, sftp]
  conns,              \* per ssh2 Client object: its channel and life cycle
  nconn,              \* number of Client objects created
  ops,                \* remote operations awaiting a callback
  out,                \* sendResponse calls made by the handler that ran last
  crashed,            \* an exception escaped an event callback
  \* ---- client (src/lib/sftpClient.js)
  cws,                \* this.ws readyState: "none"|"connecting"|"open"|"closed"
  isConnected,
  connectionId,
  eventListeners,     \* listener table: key -> sequence of handlers
  reqs,               \* calls issued so far, in order
  timers,             \* ids of calls whose setTimeout is armed
  sent,               \* types of the messages handed to ws.send, in order
  received,           \* the message _handleMessage saw last
  \* ---- the content codec (sftpClient.js and server.js, base64 both ways)
  codec,              \* one upload followed by one download of the same path
  \* ---- the saved connections (src/contexts/ConnectionContext.jsx)
  storage,            \* the provider's connections and the localStorage item
  \* ---- one directory listing (server.js, case 'list_files')
  listing,            \* the requested path, readdir's list and the reply
  \* ---- the connection provider (src/contexts/ConnectionContext.jsx)
  ui                  \* its state and the calls whose continuation has run

bvars == <<ws, sftpClient, activeConnections, conns, nconn, ops,
           out, crashed>>
cvars == <<cws, isConnected, connectionId, eventListeners, reqs, timers,
           sent, received>>
xvars == <<codec, storage, listing, ui>>
vars  == <<bvars, cvars, xvars>>

\* ----------------------------------------------------------- bridge helpers
NoArg == "-"

\* sendResponse(type, data): one outgoing message on channel ch
Response(ch, type, text, id) ==
  [ch |-> ch, type |-> type, error |-> text, connectionId |-> id]

sendResponse(ch, type, text) == Response(ch, type, text, Null)

\* An ssh2 Client object.  phase:
\*   "unused"     not created yet
\*   "connecting" connect() called, handshake under way
\*   "ready"      'ready' emitted
\*   "closing"    'error' or 'end' emitted: the socket is being torn down
\*                and the one event still to come is 'close'
\*   "closed"     no socket: 'close' emitted, or connect() threw
\* sftpCb: the callback passed to sftp() by this object's 'ready' handler
NewConn == [ch |-> Null, phase |-> "unused", endCalled |-> FALSE,
            sftpCb |-> "none", target |-> Null, okPossible |-> FALSE]

\* phases in which the ssh2 Client still has a socket that can emit events
Live == {"connecting", "ready", "closing"}

\* Client.end(): asks the connection to shut down; 'close' follows later
EndConn(cs, c) == [cs EXCEPT ![c].endCalled = TRUE]

\* mutant of EndExisting: the earlier handle is dropped without end()
EndExisting_skip(cs, old) == cs

\* case 'connect': `if (sftpClient) { sftpClient.end(); sftpClient = null; }`
EndExisting(cs, old) == IF old # Null THEN EndConn(cs, old) ELSE cs

MapSet(m, k, v) == [x \in (DOMAIN m) \cup {k} |-> IF x = k THEN v ELSE m[x]]
MapDelete(m, k) == [x \in (DOMAIN m) \ {k} |-> m[x]]
MapHas(m, k)    == k \in DOMAIN m

\* mutant of NoActiveSftp: only the entry is tested, not its sftp handle
NoActiveSftp_entryOnly(ac, ch) == ~MapHas(ac, ch)

\* `!connection || !connection.sftp`
NoActiveSftp(ac, ch) == IF MapHas(ac, ch) THEN ac[ch].sftp = Null ELSE TRUE

\* ------------------------------------------------------------- client init
\* the keys the constructor gives this.eventListeners
ListenerKeys == {"connect", "disconnect", "error", "fileList", "fileContent",
                 "uploadSuccess", "deleteSuccess", "mkdirSuccess"}

\* the message kinds the bridge sends
WireKinds == {"connect_success", "connect_error", "file_list", "file_content",
              "upload_success", "delete_success", "mkdir_success",
              "disconnect", "error"}

ClientKinds == {"connect", "listFiles", "downloadFile", "uploadFile",
                "deleteFile", "createDirectory", "disconnect"}

NoMsg == [type |-> NoArg, connectionId |-> Null, error |-> "", files |-> NoArg]

ClientInit ==
  /\ cws = "none"
  /\ isConnected = FALSE
  /\ connectionId = Null
  /\ eventListeners = [k \in ListenerKeys |-> <<>>]
  /\ reqs = <<>>
  /\ timers = {}
  /\ sent = <<>>
  /\ received = [msg |-> NoMsg, flip |-> FALSE]

BridgeInit ==
  /\ ws = [ch \in Channels |-> "none"]
  /\ sftpClient = [ch \in Channels |-> Null]
  /\ activeConnections = <<>>
  /\ conns = [c \in ConnIds |-> NewConn]
  /\ nconn = 0
  /\ ops = {}
  /\ out = <<>>
  /\ crashed = FALSE

\* no transfer under way
NoTransfer == [phase |-> "idle", kind |-> "none", content |-> <<>>,
               wire |-> <<>>, remote |-> <<>>, reply |-> <<>>,
               result |-> <<>>, size |-> 0]

\* localStorage has no item under the key
Absent == [present |-> FALSE, text |-> <<>>]

\* setItem(key, text)
Item(text) == [present |-> TRUE, text |-> text]

\* a browser that never saved a connection, the provider not mounted yet
NoStorage == [mounted |-> FALSE, connections |-> <<>>, item |-> Absent,
              clock |-> 0]

\* no list_files command seen
NoListing == [phase |-> "idle", path |-> "", list |-> <<>>,
              reply |-> [type |-> "none", path |-> "", files |-> <<>>,
                         error |-> ""]]

\* the provider's useState values; `done` holds the client calls whose
\* awaiting provider function has finished, `result` what the connectToServer
\* that finished last returned
NoUi == [isConnected |-> FALSE, activeConnection |-> Null,
         connecting |-> FALSE, error |-> "",
         done |-> {}, result |-> [success |-> FALSE, error |-> ""]]

XInit ==
  /\ codec = NoTransfer /\ storage = NoStorage /\ listing = NoListing
  /\ ui = NoUi

Init == BridgeInit /\ ClientInit /\ XInit

\* ------------------------------------------------------------ bridge steps
\* wss.on('connection'): a channel is accepted, its closure has no handle.
\* Channel identities are numbered in the order the channels are accepted.
WsConnection(ch) ==
  /\ ~crashed
  /\ ws[ch] = "none"
  /\ \A d \in Channels : d < ch => ws[d] # "none"
  /\ ws' = [ws EXCEPT ![ch] = "open"]
  /\ out' = <<>>
  /\ UNCHANGED <<sftpClient, activeConnections, conns, nconn, ops,
                 crashed>>
  /\ UNCHANGED <<cvars, xvars>>

\* case 'connect'.  cfgOk = FALSE: Client.connect() throws on the supplied
\* configuration (e.g. an unparsable privateKey); the catch block answers.
ConnectCmd(ch, cfgOk) ==
  /\ ~crashed
  /\ ws[ch] = "open"
  /\ nconn < MaxConns
  /\ LET old == sftpClient[ch]
         new == nconn + 1
         cs1 == EndExisting(conns, old)
     IN /\ conns' = [cs1 EXCEPT ![new].ch = ch,
                                ![new].phase =
                                   IF cfgOk THEN "connecting" ELSE "closed"]
        /\ sftpClient' = [sftpClient EXCEPT ![ch] = new]
        /\ nconn' = new
        /\ out' = IF cfgOk THEN <<>>
                  ELSE <<sendResponse(ch, "error",
                           "Invalid message format or server error")>>
  /\ UNCHANGED <<ws, activeConnections, ops, crashed>>
  /\ UNCHANGED <<cvars, xvars>>

\* sftpClient.on('ready').  The handler reads the closure variable, not the
\* Client that emitted the event.  throws = TRUE: sftp() throws 'Not
\* connected' because the handle's socket is no longer writable.
RemoteReady(c, throws) ==
  /\ ~crashed
  /\ conns[c].phase = "connecting"
  /\ LET ch  == conns[c].ch
         cur == sftpClient[ch]
         unusable == cur # Null /\ (conns[cur].endCalled
                                    \/ conns[cur].phase \notin {"connecting", "ready"})
         fails == cur = Null \/ (unusable /\ throws)
         cs1 == [conns EXCEPT ![c].phase = "ready",
                   ![c].sftpCb = IF fails THEN "none" ELSE "pending",
                   ![c].target = IF fails THEN Null ELSE cur,
                   ![c].okPossible = ~fails /\ ~conns[cur].endCalled
                                     /\ (cur = c \/ conns[cur].phase = "ready")]
         ac1 == MapSet(activeConnections, ch, [client |-> cur, sftp |-> Null])
     IN /\ (throws => unusable)
        /\ conns' = cs1
        /\ activeConnections' = ac1
        /\ crashed' = fails
        /\ out' = <<>>
  /\ UNCHANGED <<ws, sftpClient, nconn, ops>>
  /\ UNCHANGED <<cvars, xvars>>

\* mutant of SftpCallback: connect_success is sent without the handle
\* being stored in the entry
SftpCallback_noStore(c, ok) ==
  /\ ~crashed
  /\ conns[c].sftpCb = "pending"
  /\ LET cb == conns[c]
         ch == cb.ch
     IN /\ (ok => cb.okPossible /\ conns[cb.target].phase = "ready")
        /\ conns' = [conns EXCEPT ![c].sftpCb = "none", ![c].target = Null,
                                  ![c].okPossible = FALSE]
        /\ IF ~ok
           THEN /\ out' = <<sendResponse(ch, "connect_error", "sftp failed")>>
                /\ UNCHANGED <<activeConnections, crashed>>
           ELSE /\ out' = <<Response(ch, "connect_success", NoArg, ch)>>
                /\ UNCHANGED <<activeConnections, crashed>>
  /\ UNCHANGED <<ws, sftpClient, nconn, ops>>
  /\ UNCHANGED <<cvars, xvars>>

\* the callback given to sftpClient.sftp()
SftpCallback(c, ok) ==
  /\ ~crashed
  /\ conns[c].sftpCb = "pending"
  /\ LET cb == conns[c]
         ch == cb.ch
     IN /\ (ok => cb.okPossible /\ conns[cb.target].phase = "ready")
        /\ conns' = [conns EXCEPT ![c].sftpCb = "none", ![c].target = Null,
                                  ![c].okPossible = FALSE]
        /\ IF ~ok
           THEN /\ out' = <<sendResponse(ch, "connect_error", "sftp failed")>>
                /\ UNCHANGED <<activeConnections, crashed>>
           ELSE IF ~MapHas(activeConnections, ch)
           THEN /\ crashed' = TRUE
                /\ out' = <<>>
                /\ UNCHANGED activeConnections
           ELSE /\ activeConnections' =
                     [activeConnections EXCEPT ![ch].sftp = cb.target]
                /\ out' = <<Response(ch, "connect_success", NoArg, ch)>>
                /\ UNCHANGED crashed
  /\ UNCHANGED <<ws, sftpClient, nconn, ops>>
  /\ UNCHANGED <<cvars, xvars>>

\* sftpClient.on('error')
RemoteError(c) ==
  /\ ~crashed
  /\ conns[c].phase \in {"connecting", "ready"}
  /\ conns' = [conns EXCEPT ![c].phase = "closing"]
  /\ out' = <<sendResponse(conns[c].ch, "connect_error", "remote error")>>
  /\ UNCHANGED <<ws, sftpClient, activeConnections, nconn, ops,
                 crashed>>
  /\ UNCHANGED <<cvars, xvars>>

\* sftpClient.on('end')
RemoteEnd(c) ==
  /\ ~crashed
  /\ conns[c].phase \in {"connecting", "ready"}
  /\ conns' = [conns EXCEPT ![c].phase = "closing"]
  /\ out' = <<sendResponse(conns[c].ch, "disconnect", "Connection ended")>>
  /\ UNCHANGED <<ws, sftpClient, activeConnections, nconn, ops,
                 crashed>>
  /\ UNCHANGED <<cvars, xvars>>

\* sftpClient.on('close')
RemoteClose(c) ==
  /\ ~crashed
  /\ conns[c].phase \in Live
  /\ conns' = [conns EXCEPT ![c].phase = "closed"]
  /\ activeConnections' = MapDelete(activeConnections, conns[c].ch)
  /\ out' = <<sendResponse(conns[c].ch, "disconnect", "Connection closed")>>
  /\ UNCHANGED <<ws, sftpClient, nconn, ops, crashed>>
  /\ UNCHANGED <<cvars, xvars>>

\* mutant of DisconnectCmd: the registry entry is left in place
DisconnectCmd_keepEntry(ch) ==
  /\ ~crashed
  /\ ws[ch] = "open"
  /\ LET cur == sftpClient[ch]
     IN IF cur # Null
        THEN /\ conns' = EndConn(conns, cur)
             /\ sftpClient' = [sftpClient EXCEPT ![ch] = Null]
        ELSE UNCHANGED <<conns, sftpClient>>
  /\ out' = <<sendResponse(ch, "disconnect", "Disconnected")>>
  /\ UNCHANGED <<ws, nconn, ops, crashed, activeConnections>>
  /\ UNCHANGED <<cvars, xvars>>

\* case 'disconnect'
DisconnectCmd(ch) ==
  /\ ~crashed
  /\ ws[ch] = "open"
  /\ LET cur == sftpClient[ch]
     IN IF cur # Null
        THEN /\ conns' = EndConn(conns, cur)
             /\ sftpClient' = [sftpClient EXCEPT ![ch] = Null]
             /\ activeConnections' = MapDelete(activeConnections, ch)
        ELSE UNCHANGED <<conns, sftpClient, activeConnections>>
  /\ out' = <<sendResponse(ch, "disconnect", "Disconnected")>>
  /\ UNCHANGED <<ws, nconn, ops, crashed>>
  /\ UNCHANGED <<cvars, xvars>>

\* ws.on('close')
WsClose(ch) ==
  /\ ~crashed
  /\ ws[ch] = "open"
  /\ ws' = [ws EXCEPT ![ch] = "closed"]
  /\ conns' = IF sftpClient[ch] # Null
              THEN EndConn(conns, sftpClient[ch])
              ELSE conns
  /\ activeConnections' = MapDelete(activeConnections, ch)
  /\ out' = <<>>
  /\ UNCHANGED <<sftpClient, nconn, ops, crashed>>
  /\ UNCHANGED <<cvars, xvars>>

NoSftpText == "No active SFTP connection"

\* the guard and the early return shared by the five file commands
RejectNoSftp(ch, kind) ==
  /\ NoActiveSftp(activeConnections, ch)
  /\ out' = <<sendResponse(ch, "error", NoSftpText)>>
  /\ UNCHANGED <<ws, sftpClient, activeConnections, conns, nconn, ops, crashed>>

\* a remote call made on connection.sftp; its callback is pending.  The
\* pending calls are kept as a set: a call equal to one still pending (same
\* channel, same command, same path) is not issued again.
StartOp(ch, kind, stage, path) ==
  /\ ~NoActiveSftp(activeConnections, ch)
  /\ Cardinality(ops) < MaxPending
  /\ LET op == [ch |-> ch, kind |-> kind, stage |-> stage, path |-> path,
                h |-> activeConnections[ch].sftp]
     IN /\ op \notin ops
        /\ ops' = ops \cup {op}
  /\ out' = <<>>
  /\ UNCHANGED <<ws, sftpClient, activeConnections, conns, nconn,
                 crashed>>

\* case 'list_files': data.path || '/'
ListFilesCmd(ch, path) ==
  /\ ~crashed
  /\ ws[ch] = "open"
  /\ \/ RejectNoSftp(ch, "list_files")
     \/ StartOp(ch, "list_files", "readdir", IF path = "" THEN "/" ELSE path)
  /\ UNCHANGED <<cvars, xvars>>

\* case 'download_file'
DownloadCmd(ch) ==
  /\ ~crashed
  /\ ws[ch] = "open"
  /\ \/ RejectNoSftp(ch, "download_file")
     \/ StartOp(ch, "download_file", "stat", "/f")
  /\ UNCHANGED <<cvars, xvars>>

\* case 'upload_file'.  hasContent = FALSE: Buffer.from(undefined, 'base64')
\* throws and the catch block answers.
UploadCmd(ch, hasContent) ==
  /\ ~crashed
  /\ ws[ch] = "open"
  /\ \/ RejectNoSftp(ch, "upload_file")
     \/ /\ hasContent
        /\ StartOp(ch, "upload_file", "open", "/f")
     \/ /\ ~hasContent
        /\ ~NoActiveSftp(activeConnections, ch)
        /\ out' = <<sendResponse(ch, "error",
                      "Invalid message format or server error")>>
        /\ UNCHANGED <<ws, sftpClient, activeConnections, conns, nconn,
                       ops, crashed>>
  /\ UNCHANGED <<cvars, xvars>>

\* case 'delete_file': rmdir when isDirectory, unlink otherwise
DeleteCmd(ch, isDirectory) ==
  /\ ~crashed
  /\ ws[ch] = "open"
  /\ \/ RejectNoSftp(ch, "delete_file")
     \/ StartOp(ch, "delete_file", IF isDirectory THEN "rmdir" ELSE "unlink",
                "/f")
  /\ UNCHANGED <<cvars, xvars>>

\* case 'create_directory'
MkdirCmd(ch) ==
  /\ ~crashed
  /\ ws[ch] = "open"
  /\ \/ RejectNoSftp(ch, "create_directory")
     \/ StartOp(ch, "create_directory", "mkdir", "/f")
  /\ UNCHANGED <<cvars, xvars>>

\* the success kind of each command
SuccessKind(kind) ==
  CASE kind = "list_files"       -> "file_list"
    [] kind = "download_file"    -> "file_content"
    [] kind = "upload_file"      -> "upload_success"
    [] kind = "delete_file"      -> "delete_success"
    [] kind = "create_directory" -> "mkdir_success"

\* mutant of OpCallback: stats.isDirectory() is not looked at
OpCallback_noDirCheck(op, res) ==
  /\ ~crashed
  /\ op \in ops
  /\ LET alive == IF op.h = Null THEN FALSE ELSE conns[op.h].phase = "ready"
         r == IF res = "dir" THEN "ok" ELSE res
     IN /\ (res = "dir" => op.stage = "stat")
        /\ (r = "ok" => alive \/ op.stage = "errored")
        /\ (r = "err" => op.stage # "errored")
        /\ ops' = IF op.stage = "stat" /\ r = "ok"
                     THEN (ops \ {op}) \cup {[op EXCEPT !.stage = "stream"]}
                  ELSE IF op.stage = "open" /\ r = "err"
                     THEN (ops \ {op}) \cup {[op EXCEPT !.stage = "errored"]}
                  ELSE ops \ {op}
        /\ out' = IF r = "err"
                     THEN <<sendResponse(op.ch, "error", "remote failure")>>
                  ELSE IF op.stage = "stat" THEN <<>>
                  ELSE <<sendResponse(op.ch, SuccessKind(op.kind), op.path)>>
  /\ UNCHANGED <<ws, sftpClient, activeConnections, conns, nconn, crashed>>
  /\ UNCHANGED <<cvars, xvars>>

\* A callback or stream event of a pending remote operation.
\*   res = "ok"  : the callback without error / stream 'end' / stream 'close'
\*   res = "err" : the callback with an error / stream 'error'
\*   res = "dir" : stat succeeded and stats.isDirectory()
\* A write stream that emitted 'error' is destroyed and emits 'close' next.
OpCallback(op, res) ==
  /\ ~crashed
  /\ op \in ops
  /\ LET alive == IF op.h = Null THEN FALSE ELSE conns[op.h].phase = "ready"
     IN /\ (res = "dir" => op.stage = "stat")
        /\ (res = "ok" => alive \/ op.stage = "errored")
        /\ (res = "err" => op.stage # "errored")
        /\ ops' = IF op.stage = "stat" /\ res = "ok"
                     THEN (ops \ {op}) \cup {[op EXCEPT !.stage = "stream"]}
                  ELSE IF op.stage = "open" /\ res = "err"
                     THEN (ops \ {op}) \cup {[op EXCEPT !.stage = "errored"]}
                  ELSE ops \ {op}
        /\ out' = IF res = "err"
                     THEN <<sendResponse(op.ch, "error", "remote failure")>>
                  ELSE IF res = "dir"
                     THEN <<sendResponse(op.ch, "error",
                              "Cannot download a directory")>>
                  ELSE IF op.stage = "stat" THEN <<>>
                  ELSE <<sendResponse(op.ch, SuccessKind(op.kind), op.path)>>
  /\ UNCHANGED <<ws, sftpClient, activeConnections, conns, nconn, crashed>>
  /\ UNCHANGED <<cvars, xvars>>

\* mutant of UnknownCmd: the switch has no default branch
UnknownCmd_silent(ch) ==
  /\ ~crashed
  /\ ws[ch] = "open"
  /\ out' = <<>>
  /\ UNCHANGED <<ws, sftpClient, activeConnections, conns, nconn, ops, crashed>>
  /\ UNCHANGED <<cvars, xvars>>

\* default: a message whose type is none of the seven commands
UnknownCmd(ch) ==
  /\ ~crashed
  /\ ws[ch] = "open"
  /\ out' = <<sendResponse(ch, "error", "Unknown command")>>
  /\ UNCHANGED <<ws, sftpClient, activeConnections, conns, nconn, ops, crashed>>
  /\ UNCHANGED <<cvars, xvars>>

\* mutant of MalformedMsg: JSON.parse is outside the try block
MalformedMsg_uncaught(ch) ==
  /\ ~crashed
  /\ ws[ch] = "open"
  /\ out' = <<>>
  /\ crashed' = TRUE
  /\ UNCHANGED <<ws, sftpClient, activeConnections, conns, nconn, ops>>
  /\ UNCHANGED <<cvars, xvars>>

\* catch: JSON.parse throws, or data is null and data.type throws
MalformedMsg(ch) ==
  /\ ~crashed
  /\ ws[ch] = "open"
  /\ out' = <<sendResponse(ch, "error",
                "Invalid message format or server error")>>
  /\ UNCHANGED <<ws, sftpClient, activeConnections, conns, nconn, ops, crashed>>
  /\ UNCHANGED <<cvars, xvars>>

Paths == {"", "/a"}

\* wss.on('connection') while fewer than MaxOpen channels were accepted
AcceptChannel(ch) ==
  /\ Cardinality({d \in Channels : ws[d] # "none"}) < MaxOpen
  /\ WsConnection(ch)

\* connect/disconnect commands, remote events and channel close
SessionNext ==
  \/ \E ch \in Channels, cfgOk \in BOOLEAN : ConnectCmd(ch, cfgOk)
  \/ \E c \in ConnIds, t \in BOOLEAN : RemoteReady(c, t)
  \/ \E c \in ConnIds, ok \in BOOLEAN : SftpCallback(c, ok)
  \/ \E c \in ConnIds : RemoteError(c)
  \/ \E c \in ConnIds : RemoteEnd(c)
  \/ \E c \in ConnIds : RemoteClose(c)
  \/ \E ch \in Channels : DisconnectCmd(ch)
  \/ \E ch \in Channels : WsClose(ch)

\* connection life cycle of at most MaxOpen channels
LifecycleNext ==
  \/ \E ch \in Channels : AcceptChannel(ch)
  \/ SessionNext

\* the five file commands and the callbacks of their remote calls
FileNext ==
  \/ \E ch \in Channels, p \in Paths : ListFilesCmd(ch, p)
  \/ \E ch \in Channels : DownloadCmd(ch)
  \/ \E ch \in Channels, b \in BOOLEAN : UploadCmd(ch, b)
  \/ \E ch \in Channels, b \in BOOLEAN : DeleteCmd(ch, b)
  \/ \E ch \in Channels : MkdirCmd(ch)
  \/ \E op \in ops, r \in {"ok", "err", "dir"} : OpCallback(op, r)

\* messages that are no command at all
OtherNext ==
  \/ \E ch \in Channels : UnknownCmd(ch)
  \/ \E ch \in Channels : MalformedMsg(ch)

Next == LifecycleNext

Spec == Init /\ [][Next]_vars

\* case 'connect' on a channel that has not connected before
ConnectOnce(ch, cfgOk) ==
  /\ \A c \in ConnIds : conns[c].ch # ch
  /\ ConnectCmd(ch, cfgOk)

\* The file commands against the sessions of channels that connect at most
\* once with a usable configuration.  The 'error' and 'end' handlers are left
\* to Spec: they send a message and touch neither the registry nor a handle.
CmdNext ==
  \/ \E ch \in Channels : AcceptChannel(ch)
  \/ \E ch \in Channels : ConnectOnce(ch, TRUE)
  \/ \E c \in ConnIds, t \in BOOLEAN : RemoteReady(c, t)
  \/ \E c \in ConnIds, ok \in BOOLEAN : SftpCallback(c, ok)
  \/ \E c \in ConnIds : RemoteClose(c)
  \/ \E ch \in Channels : DisconnectCmd(ch)
  \/ \E ch \in Channels : WsClose(ch)
  \/ FileNext

SpecCmd == Init /\ [][CmdNext]_vars

\* SpecCmd with the messages that are no command
MsgNext == CmdNext \/ OtherNext

SpecMsg == Init /\ [][MsgNext]_vars

\* some callback or stream event of a pending remote operation
OpStep == \E op \in ops, r \in {"ok", "err", "dir"} : OpCallback(op, r)

\* The dispatcher with MaxConns connections; the remote library delivers the
\* callback of every call it accepted (ssh2 fails the outstanding requests
\* when the connection goes away), so operation callbacks are weakly fair.
FairNext == LifecycleNext \/ FileNext \/ OtherNext

FairSpec == Init /\ [][FairNext]_vars /\ WF_vars(OpStep)

\* every channel accepted, every message and every remote event
IsoNext ==
  \/ \E ch \in Channels : WsConnection(ch)
  \/ SessionNext
  \/ FileNext
  \/ OtherNext

SpecIso == Init /\ [][IsoNext]_vars

\* ================================================================ client
\* The mutable fields of the SFTPClient instance, as one record.
ClientState ==
  [el |-> eventListeners, reqs |-> reqs, timers |-> timers,
   isConnected |-> isConnected, connectionId |-> connectionId]

SetClientState(cs) ==
  /\ eventListeners' = cs.el
  /\ reqs' = cs.reqs
  /\ timers' = cs.timers
  /\ isConnected' = cs.isConnected
  /\ connectionId' = cs.connectionId

\* a callback handed to on()/once(): the call it belongs to and its role
Handler(r, role) == [req |-> r, role |-> role]

\* mutant of on: a list is created for an event name the table lacks
on_anyKey(el, event, h) ==
  IF event \in DOMAIN el THEN [el EXCEPT ![event] = Append(@, h)]
  ELSE [k \in (DOMAIN el) \cup {event} |->
          IF k = event THEN <<h>> ELSE el[k]]

\* on(event, callback): stored only when the table has a list for `event`
on(el, event, h) ==
  IF event \in DOMAIN el THEN [el EXCEPT ![event] = Append(@, h)] ELSE el

\* off(event, callback)
off(el, event, h) ==
  IF event \in DOMAIN el
    THEN [el EXCEPT ![event] = SelectSeq(@, LAMBDA x : x # h)]
    ELSE el

\* once(event, callback): the wrapper goes through on(); when invoked it
\* removes itself (and only itself) and calls the callback
once(el, event, h) == on(el, event, h)

\* a promise settles once; later resolve/reject calls have no effect
Settle(rs, r, state, result) ==
  IF rs[r].state = "pending"
    THEN [rs EXCEPT ![r].state = state, ![r].result = result]
    ELSE rs

TimeoutText(kind) ==
  CASE kind = "connect"         -> "Connection timed out"
    [] kind = "listFiles"       -> "List files operation timed out"
    [] kind = "downloadFile"    -> "Download operation timed out"
    [] kind = "uploadFile"      -> "Upload operation timed out"
    [] kind = "deleteFile"      -> "Delete operation timed out"
    [] kind = "createDirectory" -> "Create directory operation timed out"

\* `data.error || '<default>'`
DefaultError(kind) ==
  CASE kind = "connect"         -> "Connection failed"
    [] kind = "listFiles"       -> "Failed to list files"
    [] kind = "downloadFile"    -> "Failed to download file"
    [] kind = "uploadFile"      -> "Failed to upload file"
    [] kind = "deleteFile"      -> "Failed to delete file"
    [] kind = "createDirectory" -> "Failed to create directory"

\* the success kind each call listens for
SuccessEvent(kind) ==
  CASE kind = "connect"         -> "connect_success"
    [] kind = "listFiles"       -> "file_list"
    [] kind = "downloadFile"    -> "file_content"
    [] kind = "uploadFile"      -> "upload_success"
    [] kind = "deleteFile"      -> "delete_success"
    [] kind = "createDirectory" -> "mkdir_success"
    [] kind = "disconnect"      -> "disconnect"

ErrorEvent(kind) == IF kind = "connect" THEN "connect_error" ELSE "error"

\* the type of the message each call sends
CommandType(kind) ==
  CASE kind = "connect"         -> "connect"
    [] kind = "listFiles"       -> "list_files"
    [] kind = "downloadFile"    -> "download_file"
    [] kind = "uploadFile"      -> "upload_file"
    [] kind = "deleteFile"      -> "delete_file"
    [] kind = "createDirectory" -> "create_directory"
    [] kind = "disconnect"      -> "disconnect"

\* the body of the callbacks onConnectSuccess, onFileList, ..., onError and
\* of the disconnect listener
Callback(cs, h, data) ==
  IF h.role = "sub" THEN cs
  ELSE
    LET r    == h.req
        kind == cs.reqs[r].kind
    IN IF h.role = "disconnect"
         THEN [cs EXCEPT !.isConnected = FALSE, !.connectionId = Null,
                         !.reqs = Settle(@, r, "resolved", "ok")]
       ELSE IF h.role = "success"
         THEN IF kind = "connect"
                THEN [cs EXCEPT !.timers = @ \ {r},
                                !.isConnected = TRUE,
                                !.connectionId = data.connectionId,
                                !.reqs = Settle(@, r, "resolved", "ok")]
                ELSE [cs EXCEPT !.timers = @ \ {r},
                                !.reqs = Settle(@, r, "resolved",
                                           IF kind = "listFiles"
                                             THEN data.files ELSE "ok")]
       ELSE [cs EXCEPT !.timers = @ \ {r},
                       !.reqs = Settle(@, r, "rejected",
                                  IF data.error # "" THEN data.error
                                  ELSE DefaultError(kind))]

\* one listener of the list being called: a once() wrapper first removes
\* itself from the current list of `event`
Invoke(cs, event, h, data) ==
  Callback(IF h.role = "sub" THEN cs
           ELSE [cs EXCEPT !.el = off(@, event, h)], h, data)

RECURSIVE EmitLoop(_, _, _, _, _)
EmitLoop(cs, event, snap, i, data) ==
  IF i > Len(snap) THEN cs
  ELSE EmitLoop(Invoke(cs, event, snap[i], data), event, snap, i + 1, data)

\* _emitEvent(event, data): forEach over the list as it was when the
\* event was emitted
EmitEvent(cs, event, data) ==
  IF event \in DOMAIN cs.el
    THEN EmitLoop(cs, event, cs.el[event], 1, data)
    ELSE cs

\* mutant of Register: no timer is armed for the call
Register_noTimer(cs, r, kind) ==
  [cs EXCEPT !.el = once(once(@, SuccessEvent(kind), Handler(r, "success")),
                         ErrorEvent(kind), Handler(r, "error"))]

\* setTimeout and the two once() registrations of a call
Register(cs, r, kind) ==
  [cs EXCEPT !.timers = @ \cup {r},
             !.el = once(once(@, SuccessEvent(kind), Handler(r, "success")),
                         ErrorEvent(kind), Handler(r, "error"))]

NewReq(kind, state, result) ==
  [kind |-> kind, state |-> state, result |-> result]

\* the executor of the promise of connect/listFiles/.../createDirectory:
\* timer, listeners, then _sendMessage, which throws when the socket is not
\* open (the promise is then rejected, timer and listeners stay)
RunRequest(cs, r, wsOpen) ==
  LET c1 == Register(cs, r, cs.reqs[r].kind)
  IN IF wsOpen THEN c1
     ELSE [c1 EXCEPT !.reqs = Settle(@, r, "rejected",
                                     "WebSocket is not connected")]

\* connect(connection).  With the socket open the request is issued at
\* once; otherwise connectToWebsocket() is awaited first.
ConnectCallStep ==
  /\ Len(reqs) < MaxReq
  /\ cws \in {"none", "open", "closed"}
  /\ LET r == Len(reqs) + 1
     IN IF cws = "open"
          THEN /\ SetClientState(RunRequest(
                    [ClientState EXCEPT
                       !.reqs = Append(@, NewReq("connect", "pending", NoArg))],
                    r, TRUE))
               /\ sent' = Append(sent, "connect")
               /\ cws' = cws
          ELSE /\ reqs' = Append(reqs, NewReq("connect", "awaitWs", NoArg))
               /\ cws' = "connecting"
               /\ UNCHANGED <<eventListeners, timers, isConnected,
                              connectionId, sent>>
  /\ UNCHANGED received

\* connect(connection) with the rest of the program standing still
ConnectCall ==
  /\ UNCHANGED <<bvars, xvars>>
  /\ ConnectCallStep

\* the connect() calls suspended on connectToWebsocket()
Awaiting == {r \in 1..Len(reqs) : reqs[r].state = "awaitWs"}

\* ws.onopen: connectToWebsocket() resolves and connect() continues
WsOpen ==
  /\ UNCHANGED <<bvars, xvars>>
  /\ cws = "connecting"
  /\ cws' = "open"
  /\ LET r  == CHOOSE x \in Awaiting : TRUE
         c0 == [ClientState EXCEPT !.reqs[r].state = "pending"]
     IN IF Awaiting = {}
          THEN UNCHANGED <<eventListeners, reqs, timers, isConnected,
                           connectionId, sent>>
          ELSE /\ SetClientState(RunRequest(c0, r, TRUE))
               /\ sent' = Append(sent, "connect")
  /\ UNCHANGED received

WsErrorMsg == [NoMsg EXCEPT !.type = "error",
                            !.error = "WebSocket connection error"]

\* ws.onerror: reject the connectToWebsocket() promise, emit 'error'
WsError ==
  /\ UNCHANGED <<bvars, xvars>>
  /\ cws \in {"connecting", "open"}
  /\ cws' = "closing"
  /\ LET c0 == [ClientState EXCEPT !.reqs =
                  [r \in 1..Len(reqs) |->
                     IF reqs[r].state = "awaitWs"
                       THEN [reqs[r] EXCEPT !.state = "rejected",
                                            !.result = "ws_error"]
                       ELSE reqs[r]]]
     IN SetClientState(EmitEvent(c0, "error", WsErrorMsg))
  /\ UNCHANGED <<sent, received>>

\* ws.onclose
WsCloseEventStep ==
  /\ cws \in {"open", "closing"}
  /\ cws' = "closed"
  /\ SetClientState(EmitEvent(
        [ClientState EXCEPT !.isConnected = FALSE, !.connectionId = Null],
        "disconnect",
        [NoMsg EXCEPT !.type = "disconnect"]))
  /\ UNCHANGED <<sent, received>>

\* ws.onclose with the rest of the program standing still
WsCloseEvent ==
  /\ UNCHANGED <<bvars, xvars>>
  /\ WsCloseEventStep

\* mutant of OpCall: the `!this.isConnected` early return is missing
OpCall_noGuard(kind, validContent) ==
  /\ UNCHANGED <<bvars, xvars>>
  /\ Len(reqs) < MaxReq
  /\ (~validContent => kind = "uploadFile")
  /\ LET r  == Len(reqs) + 1
         c0 == [ClientState EXCEPT
                  !.reqs = Append(@, NewReq(kind, "pending", NoArg))]
     IN IF ~validContent
          THEN /\ SetClientState(
                    [Register(c0, r, kind) EXCEPT
                       !.reqs = Settle(@, r, "rejected",
                                       "Invalid content type")])
               /\ sent' = sent
          ELSE /\ SetClientState(RunRequest(c0, r, cws = "open"))
               /\ sent' = IF cws = "open"
                            THEN Append(sent, CommandType(kind))
                            ELSE sent
  /\ UNCHANGED <<cws, received>>

\* listFiles / downloadFile / uploadFile / deleteFile / createDirectory.
\* validContent = FALSE: uploadFile with content that is neither a string
\* nor an ArrayBuffer.
OpCall(kind, validContent) ==
  /\ UNCHANGED <<bvars, xvars>>
  /\ Len(reqs) < MaxReq
  /\ (~validContent => kind = "uploadFile")
  /\ LET r == Len(reqs) + 1
     IN IF ~isConnected
          THEN /\ reqs' = Append(reqs, NewReq(kind, "rejected",
                                   "Not connected to any SFTP server"))
               /\ UNCHANGED <<eventListeners, timers, isConnected,
                              connectionId, sent>>
          ELSE LET c0 == [ClientState EXCEPT
                            !.reqs = Append(@, NewReq(kind, "pending", NoArg))]
               IN IF ~validContent
                    THEN /\ SetClientState(
                              [Register(c0, r, kind) EXCEPT
                                 !.reqs = Settle(@, r, "rejected",
                                                 "Invalid content type")])
                         /\ sent' = sent
                    ELSE /\ SetClientState(RunRequest(c0, r, cws = "open"))
                         /\ sent' = IF cws = "open"
                                      THEN Append(sent, CommandType(kind))
                                      ELSE sent
  /\ UNCHANGED <<cws, received>>

\* mutant of DisconnectCall: the `!this.isConnected` early return is missing
DisconnectCall_noGuard ==
  /\ UNCHANGED <<bvars, xvars>>
  /\ Len(reqs) < MaxReq
  /\ LET r  == Len(reqs) + 1
         c0 == [ClientState EXCEPT
                  !.reqs = Append(@, NewReq("disconnect", "pending", NoArg)),
                  !.el = once(@, "disconnect", Handler(r, "disconnect"))]
     IN /\ SetClientState(
             IF cws = "open" THEN c0
             ELSE [c0 EXCEPT !.reqs = Settle(@, r, "rejected",
                                 "WebSocket is not connected")])
        /\ sent' = IF cws = "open" THEN Append(sent, "disconnect") ELSE sent
  /\ UNCHANGED <<cws, received>>

\* disconnect()
DisconnectCallStep ==
  /\ Len(reqs) < MaxReq
  /\ LET r == Len(reqs) + 1
     IN IF ~isConnected
          THEN /\ reqs' = Append(reqs, NewReq("disconnect", "resolved", "ok"))
               /\ UNCHANGED <<eventListeners, timers, isConnected,
                              connectionId, sent>>
          ELSE LET c0 == [ClientState EXCEPT
                            !.reqs = Append(@, NewReq("disconnect", "pending",
                                                      NoArg)),
                            !.el = once(@, "disconnect",
                                        Handler(r, "disconnect"))]
               IN /\ SetClientState(
                       IF cws = "open" THEN c0
                       ELSE [c0 EXCEPT !.reqs = Settle(@, r, "rejected",
                                           "WebSocket is not connected")])
                  /\ sent' = IF cws = "open"
                               THEN Append(sent, "disconnect") ELSE sent
  /\ UNCHANGED <<cws, received>>

\* disconnect() with the rest of the program standing still
DisconnectCall ==
  /\ UNCHANGED <<bvars, xvars>>
  /\ DisconnectCallStep

\* close()
CloseCall ==
  /\ UNCHANGED <<bvars, xvars>>
  /\ cws' = IF cws = "open" THEN "closing" ELSE cws
  /\ isConnected' = FALSE
  /\ connectionId' = Null
  /\ (cws = "open" \/ isConnected \/ connectionId # Null)
  /\ UNCHANGED <<eventListeners, reqs, timers, sent, received>>

\* on('disconnect', ...) of the UI's connection context
Subscribe ==
  /\ UNCHANGED <<bvars, xvars>>
  /\ \A i \in 1..Len(eventListeners["disconnect"]) :
        eventListeners["disconnect"][i].role # "sub"
  /\ eventListeners' = on(eventListeners, "disconnect", Handler(0, "sub"))
  /\ UNCHANGED <<cws, isConnected, connectionId, reqs, timers, sent, received>>

\* the messages the bridge can send to this client
Messages ==
  {[NoMsg EXCEPT !.type = "connect_success", !.connectionId = id] :
      id \in Channels}
  \cup {[NoMsg EXCEPT !.type = t, !.error = e] :
          t \in {"connect_error", "error"}, e \in {"", "E1"}}
  \cup {[NoMsg EXCEPT !.type = "file_list", !.files = "F1"]}
  \cup {[NoMsg EXCEPT !.type = t] :
          t \in {"file_content", "upload_success", "delete_success",
                 "mkdir_success", "disconnect"}}

\* ws.onmessage -> _handleMessage -> _emitEvent(message.type, message)
RecvStep(m) ==
  /\ cws = "open"
  /\ SetClientState(EmitEvent(ClientState, m.type, m))
  /\ received' = [msg |-> m, flip |-> ~received.flip]
  /\ UNCHANGED <<cws, sent>>

\* ws.onmessage with the rest of the program standing still
Recv(m) ==
  /\ UNCHANGED <<bvars, xvars>>
  /\ RecvStep(m)

\* mutant of TimerFire: the timer ends without rejecting the call
TimerFire_noReject(r) ==
  /\ UNCHANGED <<bvars, xvars>>
  /\ r \in timers
  /\ timers' = timers \ {r}
  /\ UNCHANGED <<cws, isConnected, connectionId, eventListeners, reqs, sent,
                 received>>

\* the setTimeout callback of call r
TimerFire(r) ==
  /\ UNCHANGED <<bvars, xvars>>
  /\ r \in timers
  /\ timers' = timers \ {r}
  /\ reqs' = Settle(reqs, r, "rejected", TimeoutText(reqs[r].kind))
  /\ UNCHANGED <<cws, isConnected, connectionId, eventListeners, sent,
                 received>>

OpKinds == ClientKinds \ {"connect", "disconnect"}

ClientNext ==
  \/ ConnectCall
  \/ WsOpen
  \/ WsError
  \/ WsCloseEvent
  \/ \E k \in OpKinds, v \in BOOLEAN : OpCall(k, v)
  \/ DisconnectCall
  \/ CloseCall
  \/ Subscribe
  \/ \E m \in Messages : Recv(m)
  \/ \E r \in 1..MaxReq : TimerFire(r)

SpecClient == Init /\ [][ClientNext]_vars

\* the client's calls and timers while the socket, once open, stays open
\* and the bridge sends nothing
SilentNext ==
  \/ ConnectCall
  \/ WsOpen
  \/ \E k \in OpKinds, v \in BOOLEAN : OpCall(k, v)
  \/ DisconnectCall
  \/ \E r \in 1..MaxReq : TimerFire(r)

\* a timer that is armed fires: setTimeout callbacks are run by the event
\* loop whatever else happens
SpecSilent ==
  Init /\ [][SilentNext]_vars /\ \A r \in 1..MaxReq : WF_vars(TimerFire(r))

\* ===================================================== bridge properties
\* a remote connection of channel ch that was neither end()ed nor closed
NonTerminated(ch) ==
  {c \in ConnIds : conns[c].ch = ch /\ conns[c].phase \in Live
                    /\ ~conns[c].endCalled}

\* C2: every channel has at most one registry entry and at most one
\* non-terminated remote connection, and that one is the channel's current
\* handle: a handle replaced by a later connect has had end() called.
C2_OneRemotePerChannel ==
  /\ DOMAIN activeConnections \subseteq Channels
  /\ \A ch \in Channels :
       /\ Cardinality(NonTerminated(ch)) <= 1
       /\ \A c \in ConnIds :
            (conns[c].ch = ch /\ conns[c].phase # "unused"
               /\ c # sftpClient[ch]) => conns[c].endCalled

\* C2 witness: a connect replaced a live handle, which was end()ed
C2_Witness ==
  \E ch \in Channels, c, d \in ConnIds :
    /\ c # d /\ conns[c].ch = ch /\ conns[d].ch = ch
    /\ conns[c].phase \in Live /\ conns[c].endCalled
    /\ conns[d].phase \in Live /\ sftpClient[ch] = d

\* C3 as stated: after the channel's close was handled the registry never
\* holds an entry for that channel.
C3_NoEntryAfterChannelClose ==
  \A ch \in Channels : ws[ch] = "closed" => ~MapHas(activeConnections, ch)

\* C4 as stated: a remote 'end' event removes the channel's registry entry
\* and sends disconnect, like 'close' does.
C4_EndRemovesEntry ==
  [][\A c \in ConnIds :
       (RemoteEnd(c) \/ RemoteClose(c)) =>
          /\ ~MapHas(activeConnections', conns[c].ch)
          /\ out' # <<>> /\ out'[1].type = "disconnect"
          /\ out'[1].ch = conns[c].ch]_vars

DisconnectedMsg(ch) == <<sendResponse(ch, "disconnect", "Disconnected")>>

\* C5: a disconnect command ends the current remote connection if there is
\* one, leaves no registry entry and no handle, and sends disconnect; a
\* second disconnect right after the first changes nothing and answers again.
C5_DisconnectIdempotent ==
  [][\A ch \in Channels :
       DisconnectCmd(ch) =>
          /\ ~MapHas(activeConnections', ch)
          /\ sftpClient'[ch] = Null
          /\ (sftpClient[ch] # Null => conns'[sftpClient[ch]].endCalled)
          /\ out' = DisconnectedMsg(ch)
          /\ ~crashed'
          /\ (out = DisconnectedMsg(ch) =>
                UNCHANGED <<sftpClient, activeConnections, conns, ws, ops>>)
    ]_vars

\* C5 witness: disconnect was processed on a channel that had a session
C5_Witness ==
  \E ch \in Channels, c \in ConnIds :
    /\ out = DisconnectedMsg(ch)
    /\ conns[c].ch = ch /\ conns[c].phase = "ready" /\ conns[c].endCalled
    /\ sftpClient[ch] = Null /\ ~MapHas(activeConnections, ch)

\* C6 as stated: whenever connect_error is sent to a channel the registry
\* holds no entry for that channel.
C6_NoEntryOnConnectError ==
  \A i \in 1..Len(out) :
    out[i].type = "connect_error" => ~MapHas(activeConnections, out[i].ch)

\* `!connection || !connection.sftp`, as the claim words it
LacksSftp(ch) ==
  IF ch \in DOMAIN activeConnections
    THEN activeConnections[ch].sftp = Null ELSE TRUE

FileCmd(ch) ==
  \/ \E p \in Paths : ListFilesCmd(ch, p)
  \/ DownloadCmd(ch)
  \/ \E b \in BOOLEAN : UploadCmd(ch, b)
  \/ \E b \in BOOLEAN : DeleteCmd(ch, b)
  \/ MkdirCmd(ch)

\* C8: a file command on a channel with no registry entry, or with an entry
\* that has no SFTP handle yet, is answered with error 'No active SFTP
\* connection', starts no remote operation and leaves the registry alone.
C8_NoSessionRejected ==
  [][\A ch \in Channels :
       (LacksSftp(ch) /\ FileCmd(ch)) =>
          /\ out' = <<sendResponse(ch, "error", "No active SFTP connection")>>
          /\ ops' = ops
          /\ activeConnections' = activeConnections
          /\ conns' = conns]_vars

\* C8 witness: a file command was rejected on a channel whose entry exists
\* but has no SFTP handle yet
C8_Witness ==
  \E ch \in Channels :
    /\ out = <<sendResponse(ch, "error", "No active SFTP connection")>>
    /\ MapHas(activeConnections, ch)
    /\ activeConnections[ch].sftp = Null

\* C9 as stated: every file command accepted on a channel with a session is
\* eventually answered, and a remote failure closes no channel and removes
\* no registry entry.
C9_AlwaysAnswered ==
  /\ \A ch \in Channels :
       (\E op \in ops : op.ch = ch) ~> (\A op \in ops : op.ch # ch)
  /\ [][\A op \in ops :
          OpCallback(op, "err") =>
             /\ ws' = ws /\ activeConnections' = activeConnections
             /\ out' = <<sendResponse(op.ch, "error", "remote failure")>>
        ]_vars

\* some handler of channel a runs: a message or the close of a, or an event
\* of a remote connection or of a remote call that a created
EventOn(a) ==
  \/ WsConnection(a)
  \/ \E cfgOk \in BOOLEAN : ConnectCmd(a, cfgOk)
  \/ DisconnectCmd(a)
  \/ WsClose(a)
  \/ FileCmd(a)
  \/ UnknownCmd(a)
  \/ MalformedMsg(a)
  \/ \E c \in ConnIds :
        /\ conns[c].ch = a
        /\ \/ \E t \in BOOLEAN : RemoteReady(c, t)
           \/ \E ok \in BOOLEAN : SftpCallback(c, ok)
           \/ RemoteError(c)
           \/ RemoteEnd(c)
           \/ RemoteClose(c)
  \/ \E op \in ops, r \in {"ok", "err", "dir"} :
        op.ch = a /\ OpCallback(op, r)

\* the registry entry of channel b, Null when it has none
EntryOf(ac, b) == IF MapHas(ac, b) THEN ac[b] ELSE Null

\* C17 as stated: an event on channel a leaves the registry entry and the
\* remote handle of every other channel b as they were and sends b nothing;
\* an entry of b is still there afterwards only while the bridge process,
\* which holds the registry, is alive.
C17_ChannelsIsolated ==
  [][\A a, b \in Channels :
       (a # b /\ EventOn(a)) =>
          /\ EntryOf(activeConnections', b) = EntryOf(activeConnections, b)
          /\ sftpClient'[b] = sftpClient[b]
          /\ \A i \in 1..Len(out') : out'[i].ch # b
          /\ MapHas(activeConnections, b) => ~crashed'
    ]_vars

GenericError(ch) ==
  <<sendResponse(ch, "error", "Invalid message format or server error")>>

\* C19: a message that is not JSON, or is JSON null, is answered with
\* exactly one generic error on its channel; registry, handles, remote
\* connections and calls are untouched, no channel is closed and the
\* dispatcher goes on running, for this channel and for the others.
C19_MalformedAnswered ==
  [][\A ch \in Channels :
       MalformedMsg(ch) =>
          /\ out' = GenericError(ch)
          /\ activeConnections' = activeConnections
          /\ sftpClient' = sftpClient
          /\ conns' = conns /\ ops' = ops
          /\ ws' = ws
          /\ ~crashed'
    ]_vars

\* C19 witness: the generic error went to a channel whose connect is under
\* way (a handle, no entry yet), where no command produces it
C19_Witness ==
  \E ch \in Channels :
    /\ out = GenericError(ch)
    /\ ws[ch] = "open" /\ ~crashed
    /\ sftpClient[ch] # Null /\ ~MapHas(activeConnections, ch)

UnknownError(ch) == <<sendResponse(ch, "error", "Unknown command")>>

\* C20: a message whose type is none of the seven commands is answered
\* with the error 'Unknown command', with a session or without; registry
\* and handles stay as they are and no remote call is started.
C20_UnknownCommand ==
  [][\A ch \in Channels :
       UnknownCmd(ch) =>
          /\ out' = UnknownError(ch)
          /\ activeConnections' = activeConnections
          /\ sftpClient' = sftpClient
          /\ conns' = conns /\ ops' = ops
          /\ ~crashed'
    ]_vars

\* C20 witness: 'Unknown command' was sent to a channel that has a session
\* with its SFTP handle
C20_Witness ==
  \E ch \in Channels :
    /\ out = UnknownError(ch)
    /\ MapHas(activeConnections, ch)
    /\ ~NoActiveSftp(activeConnections, ch)

\* ===================================================== client properties
\* call r is waiting for its answer: not settled, timer armed
Pending(r) ==
  /\ r \in 1..Len(reqs)
  /\ reqs[r].state = "pending"
  /\ r \in timers

\* the listeners call r registered that are still in table el
HandlersOf(el, r) ==
  {k \in DOMAIN el : \E i \in 1..Len(el[k]) : el[k][i].req = r}

\* C1 as stated: connect_success arriving while connect() is pending resolves
\* it and makes the client connected with the carried identity; a listFiles
\* issued then is sent, and file_list resolves it with the listed files.
C1_ConnectThenList ==
  [][/\ \A m \in Messages, r \in 1..MaxReq :
          (m.type = "connect_success" /\ Pending(r)
             /\ reqs[r].kind = "connect" /\ Recv(m)) =>
             /\ reqs'[r].state = "resolved"
             /\ isConnected'
             /\ connectionId' = m.connectionId
     /\ (isConnected /\ cws = "open" /\ OpCall("listFiles", TRUE)) =>
             sent' = Append(sent, "list_files")
     /\ \A m \in Messages, r \in 1..MaxReq :
          (m.type = "file_list" /\ Pending(r)
             /\ reqs[r].kind = "listFiles" /\ Recv(m)) =>
             /\ reqs'[r].state = "resolved"
             /\ reqs'[r].result = m.files
    ]_vars

\* C7 as stated: connect_error{error} arriving while connect() is pending
\* rejects it with that error text, and the client stays disconnected.
C7_ConnectErrorRejects ==
  [][\A m \in Messages, r \in 1..MaxReq :
       (m.type = "connect_error" /\ Pending(r)
          /\ reqs[r].kind = "connect" /\ Recv(m)) =>
          /\ reqs'[r].state = "rejected"
          /\ reqs'[r].result =
               (IF m.error # "" THEN m.error ELSE "Connection failed")
          /\ ~isConnected'
          /\ connectionId' = Null
    ]_vars

\* C10 as stated: when the first of the two messages a pending call expects
\* arrives, the call's timeout is cleared and none of its one-shot handlers
\* remains in the listener table.
C10_FirstMessageCleansUp ==
  [][\A m \in Messages, r \in 1..MaxReq :
       (Pending(r)
          /\ m.type \in {SuccessEvent(reqs[r].kind), ErrorEvent(reqs[r].kind)}
          /\ Recv(m)) =>
          /\ r \notin timers'
          /\ HandlersOf(eventListeners', r) = {}
    ]_vars

\* call r ended by its timeout
TimedOut(r) ==
  /\ r \in 1..Len(reqs)
  /\ reqs[r].state = "rejected"
  /\ reqs[r].result = TimeoutText(reqs[r].kind)

Settled(r) == reqs[r].state \in {"resolved", "rejected"}

\* C12: a call is fulfilled exactly once: once resolved or rejected its
\* outcome never changes, whatever message or timer comes next, and a call
\* whose timeout has elapsed is not left waiting.
C12_FulfilledExactlyOnce ==
  /\ [][\A r \in 1..Len(reqs) : Settled(r) => reqs'[r] = reqs[r]]_vars
  /\ [](\A r \in 1..Len(reqs) :
          (reqs[r].kind # "disconnect" /\ reqs[r].state = "pending")
             => r \in timers)

\* C12 witness: one call ended by its timeout while a later one still waits
C12_Witness ==
  \E r, q \in 1..Len(reqs) :
    /\ r < q /\ TimedOut(r) /\ r \notin timers
    /\ Pending(q)

\* the pending calls that expect a message of type t
Expecting(t) ==
  {r \in 1..Len(reqs) :
     Pending(r) /\ t \in {SuccessEvent(reqs[r].kind), ErrorEvent(reqs[r].kind)}}

\* C13 as stated: a message of a type that several pending calls expect
\* fulfils the first-registered of them and no other.
C13_FirstMatchWins ==
  [][\A m \in Messages :
       (Cardinality(Expecting(m.type)) >= 2 /\ Recv(m)) =>
          \E r \in Expecting(m.type) :
             /\ \A q \in Expecting(m.type) : r <= q
             /\ reqs'[r].state \in {"resolved", "rejected"}
             /\ \A q \in Expecting(m.type) \ {r} : reqs'[q] = reqs[q]
    ]_vars

ConnectPending == \E r \in 1..Len(reqs) : Pending(r) /\ reqs[r].kind = "connect"

C16_DisconnectTwice ==
  /\ [][DisconnectCall =>
          LET r == Len(reqs) + 1
          IN /\ reqs'[r].state # "rejected"
             /\ ~isConnected =>
                  (reqs'[r].state = "resolved" /\ sent' = sent)
             /\ reqs'[r].state = "resolved" =>
                  (~isConnected' /\ connectionId' = Null)]_vars
  /\ [][\A r \in 1..Len(reqs) :
          (reqs[r].kind = "disconnect" /\ reqs[r].state = "pending") =>
             /\ reqs'[r].state # "rejected"
             /\ reqs'[r].state = "resolved" =>
                  (~isConnected' /\ connectionId' = Null)]_vars

\* C16 witness: two disconnect() calls in a row, both resolved, nothing sent
C16_Witness ==
  \E r \in 1..Len(reqs) :
    /\ r + 1 <= Len(reqs)
    /\ reqs[r].kind = "disconnect" /\ reqs[r].state = "resolved"
    /\ reqs[r + 1].kind = "disconnect" /\ reqs[r + 1].state = "resolved"
    /\ \A i \in 1..Len(sent) : sent[i] # "disconnect"
    /\ ~isConnected /\ connectionId = Null

\* call r was issued and is not settled
Waiting(r) == r \in 1..Len(reqs) /\ reqs[r].state = "pending"

Pad == 64

\* byte values and code units the contents are drawn from: NUL, 'A', the
\* first value above ASCII, 0xFF, and a code unit that is not a byte
ByteValues == {0, 65, 128, 255}
CodeUnits  == ByteValues \cup {8364}

RECURSIVE SeqsUpTo(_, _)
SeqsUpTo(S, n) ==
  IF n = 0 THEN {<<>>}
  ELSE LET shorter == SeqsUpTo(S, n - 1)
       IN  shorter \cup {Append(q, x) : q \in {t \in shorter : Len(t) = n - 1},
                                        x \in S}

\* base64 of a byte string: three bytes make four symbols, a last group of
\* one or two bytes is padded (btoa and Buffer#toString('base64') agree)
RECURSIVE B64Encode(_)
B64Encode(bs) ==
  IF Len(bs) = 0 THEN <<>>
  ELSE IF Len(bs) = 1 THEN
    LET n == bs[1] * 65536
    IN  <<n \div 262144, (n \div 4096) % 64, Pad, Pad>>
  ELSE IF Len(bs) = 2 THEN
    LET n == bs[1] * 65536 + bs[2] * 256
    IN  <<n \div 262144, (n \div 4096) % 64, (n \div 64) % 64, Pad>>
  ELSE
    LET n == bs[1] * 65536 + bs[2] * 256 + bs[3]
    IN  <<n \div 262144, (n \div 4096) % 64, (n \div 64) % 64, n % 64>>
          \o B64Encode(SubSeq(bs, 4, Len(bs)))

\* mutant of Kept: the padding is not looked at
Kept_noPad(q) == 3

\* the bytes a group of four symbols stands for
Kept(q) == IF q[3] = Pad THEN 1 ELSE IF q[4] = Pad THEN 2 ELSE 3

\* the byte string of a base64 text (atob and Buffer.from(s, 'base64') agree
\* on the texts B64Encode produces)
RECURSIVE B64Decode(_)
B64Decode(ss) ==
  IF Len(ss) < 4 THEN <<>>
  ELSE
    LET q == SubSeq(ss, 1, 4)
        v(i) == IF q[i] = Pad THEN 0 ELSE q[i]
        n == v(1) * 262144 + v(2) * 4096 + v(3) * 64 + v(4)
        bytes == <<n \div 65536, (n \div 256) % 256, n % 256>>
    IN  SubSeq(bytes, 1, Kept(q)) \o B64Decode(SubSeq(ss, 5, Len(ss)))

\* every code unit of the string is a byte: btoa throws otherwise
Latin1(str) == \A i \in 1..Len(str) : str[i] <= 255

btoa(str) == B64Encode(str)
atob(text) == B64Decode(text)

\* String.fromCharCode.apply(null, new Uint8Array(content)): one code unit
\* per byte, the byte's value
fromCharCode(bytes) == [i \in 1..Len(bytes) |-> bytes[i] % 65536]

\* Buffer.from(content, 'base64') and buffer.toString('base64')
BufferFrom(text) == B64Decode(text)
BufferToString(bytes) == B64Encode(bytes)

\* what a caller can hand to uploadFile: a string, an ArrayBuffer, or
\* something else (a Blob, a typed array)
Contents ==
  [kind : {"string"}, content : SeqsUpTo(CodeUnits, MaxLen)]
    \cup [kind : {"buffer"}, content : SeqsUpTo(ByteValues, MaxLen)]
    \cup [kind : {"other"}, content : {<<>>}]

CodecInit ==
  \E c \in Contents :
    codec = [NoTransfer EXCEPT !.kind = c.kind, !.content = c.content]

\* uploadFile's conversion: btoa of the string, btoa of the buffer's bytes
\* as a binary string, or the rejection 'Invalid content type'; btoa's
\* exception rejects the promise as well
UploadFile ==
  /\ codec.phase = "idle"
  /\ codec' =
       IF codec.kind = "string" /\ Latin1(codec.content)
         THEN [codec EXCEPT !.phase = "sent", !.wire = btoa(codec.content)]
       ELSE IF codec.kind = "buffer"
         THEN [codec EXCEPT !.phase = "sent",
                            !.wire = btoa(fromCharCode(codec.content))]
       ELSE [codec EXCEPT !.phase = "rejected"]
  /\ UNCHANGED <<bvars, cvars, storage, listing, ui>>

\* case 'upload_file': the decoded buffer is written to the remote path
BridgeUpload ==
  /\ codec.phase = "sent"
  /\ codec' = [codec EXCEPT !.phase = "stored",
                            !.remote = BufferFrom(codec.wire)]
  /\ UNCHANGED <<bvars, cvars, storage, listing, ui>>

\* case 'download_file', stream 'end': the file's bytes in base64, with the
\* size stat reported
BridgeDownload ==
  /\ codec.phase = "stored"
  /\ codec' = [codec EXCEPT !.phase = "replied",
                            !.reply = BufferToString(codec.remote),
                            !.size = Len(codec.remote)]
  /\ UNCHANGED <<bvars, cvars, storage, listing, ui>>

\* onFileContent: the promise resolves with atob(data.content) and data.size
onFileContent ==
  /\ codec.phase = "replied"
  /\ codec' = [codec EXCEPT !.phase = "done", !.result = atob(codec.reply)]
  /\ UNCHANGED <<bvars, cvars, storage, listing, ui>>

CodecNext == UploadFile \/ BridgeUpload \/ BridgeDownload \/ onFileContent

InitCodec ==
  /\ BridgeInit /\ ClientInit
  /\ CodecInit /\ storage = NoStorage /\ listing = NoListing /\ ui = NoUi

SpecCodec == InitCodec /\ [][CodecNext]_vars

\* the content is a byte sequence: a buffer, or a string of bytes
ByteContent ==
  \/ codec.kind = "buffer"
  \/ codec.kind = "string" /\ Latin1(codec.content)

FormData ==
  [name : {"srv"}, host : {"h1", "h2"}, port : {"22"}, username : {"u"},
   password : {"pw1", "pw2"}, authMethod : {"password", "key"}]

\* the properties of a saved connection, in the order the object gets them:
\* the spread form data, then id and createdAt
Properties == <<"name", "host", "port", "username", "password",
                "authMethod", "id", "createdAt">>

\* JSON.stringify of the connections: per object its properties with their
\* values, in order
Stringify(list) ==
  [i \in 1..Len(list) |->
     [j \in 1..Len(Properties) |-> <<Properties[j], list[i][Properties[j]]>>]]

\* JSON.parse of such a text
Parse(text) ==
  [i \in 1..Len(text) |->
     [k \in {text[i][j][1] : j \in 1..Len(text[i])} |->
        LET j == CHOOSE x \in 1..Len(text[i]) : text[i][x][1] = k
        IN  text[i][j][2]]]

RECURSIVE Filter(_, _)
Filter(list, id) ==
  IF list = <<>> THEN <<>>
  ELSE IF Head(list).id # id THEN <<Head(list)>> \o Filter(Tail(list), id)
  ELSE Filter(Tail(list), id)

\* `{...connection, id: Date.now().toString(), createdAt: ...}`
NewConnection(connection, now) ==
  [k \in (DOMAIN connection \cup {"id", "createdAt"}) |->
     IF k \in {"id", "createdAt"} THEN now ELSE connection[k]]

\* the page is loaded: the provider starts with no connections and its
\* effect loads the saved ones, if the item exists
Mount ==
  /\ ~storage.mounted
  /\ storage' = [storage EXCEPT
                   !.mounted = TRUE,
                   !.connections = IF storage.item.present
                                     THEN Parse(storage.item.text) ELSE <<>>]
  /\ UNCHANGED <<bvars, cvars, codec, listing, ui>>

\* Settings.handleSubmit: saveConnection(formData).  The clock has moved on
\* since the submit before.
saveConnection(connection) ==
  /\ storage.mounted
  /\ storage.clock < MaxSaves
  /\ LET now == storage.clock + 1
         updatedConnections ==
           Append(storage.connections, NewConnection(connection, now))
     IN  storage' = [storage EXCEPT
                       !.connections = updatedConnections,
                       !.item = Item(Stringify(updatedConnections)),
                       !.clock = now]
  /\ UNCHANGED <<bvars, cvars, codec, listing, ui>>

\* deleteConnection(id), from the list's delete button; no connection is
\* active, so disconnect() is not called
deleteConnection(id) ==
  /\ storage.mounted
  /\ \E i \in 1..Len(storage.connections) : storage.connections[i].id = id
  /\ LET updatedConnections == Filter(storage.connections, id)
     IN  storage' = [storage EXCEPT !.connections = updatedConnections,
                                    !.item = Item(Stringify(updatedConnections))]
  /\ UNCHANGED <<bvars, cvars, codec, listing, ui>>

\* the page is left: the provider's state is gone, the item stays
Unload ==
  /\ storage.mounted
  /\ storage' = [storage EXCEPT !.mounted = FALSE, !.connections = <<>>]
  /\ UNCHANGED <<bvars, cvars, codec, listing, ui>>

StoreNext ==
  \/ \E f \in FormData : saveConnection(f)
  \/ \E id \in 1..MaxSaves : deleteConnection(id)
  \/ Unload
  \/ Mount

SpecStore == Init /\ [][StoreNext]_vars

\* the property names that carry a credential
CredentialKeys == {"password", "privateKey"}

\* C23: the value stored under 'sftp-connections' never holds a password or
\* a private key, whatever connections were saved and deleted.
C23_NoCredentialStored ==
  storage.item.present =>
    \A i \in 1..Len(storage.item.text) :
      \A j \in 1..Len(storage.item.text[i]) :
        storage.item.text[i][j][1] \notin CredentialKeys

\* ------------------------------------------------------- directory listing
\* A byte count is written in base 1024, most significant digit first and
\* without leading zeros: <<>> is 0, <<1023>> is 1023, <<1, 0>> is 1024,
\* <<1, 0, 0>> is 1048576.  TLC's integers end at 2^31; attrs.size does not.
Bytes(top, low, e) ==
  IF e = 0 THEN <<top>> ELSE <<top, low>> \o [j \in 1..(e - 1) |-> 0]

\* the sizes the remote files are drawn from: 0, 1, 1023, and for every
\* power of 1024 up to MaxExp the power itself, one and a half times it,
\* and the last multiple of its 1024th part below the next power
Sizes ==
  {<<>>, <<1>>, <<1023>>}
    \cup {Bytes(1, 0, e) : e \in 1..MaxExp}
    \cup {Bytes(1, 512, e) : e \in 1..MaxExp}
    \cup {Bytes(1023, 1023, e) : e \in 1..MaxExp}

units == <<"B", "KB", "MB", "GB", "TB">>

\* units[i] of a JavaScript array: undefined past its end, and undefined
\* concatenates as the text 'undefined'
UnitAt(i) == IF i + 1 <= Len(units) THEN units[i + 1] ELSE "undefined"

\* Math.floor(Math.log(bytes) / Math.log(1024)) for bytes > 0: the number
\* of base-1024 digits after the first.  (In floating point the quotient is
\* exact at the powers of 1024 and rounds up to 5 only for the three sizes
\* just below 1024^5, which Sizes does not hold.)
FloorLog1024(bytes) == Len(bytes) - 1

\* bytes / Math.pow(1024, i) in hundredths, rounded half up as toFixed(2)
\* rounds: the first digit, and the next two digits as the fraction (Sizes
\* holds no size with a later digit other than 0)
Hundredths(bytes) ==
  LET d(j) == IF j <= Len(bytes) THEN bytes[j] ELSE 0
      f == d(2) * 1024 + d(3)
  IN  d(1) * 100 + (f * 200 + 1048576) \div 2097152

\* (x).toFixed(2) of x = h / 100
toFixed2(h) ==
  ToString(h \div 100) \o "."
    \o (IF h % 100 < 10 THEN "0" ELSE "") \o ToString(h % 100)

formatFileSize(bytes) ==
  IF bytes = <<>> THEN "0 B"
  ELSE toFixed2(Hundredths(bytes)) \o " " \o UnitAt(FloorLog1024(bytes))

\* formatDate(mtime * 1000): the ISO text cut after the seconds, named by
\* the second it shows
formatDate(timestamp) == timestamp \div 1000

\* what readdir reports per item; a directory's size is not looked at
Items ==
  [filename : {"a", "b"}, isDirectory : {FALSE}, size : Sizes,
   mtime : {1}, mode : {420}]
    \cup [filename : {"a", "b"}, isDirectory : {TRUE}, size : {<<4>>},
          mtime : {1}, mode : {493}]

\* mutant of Entry: every item is given a formatted size
Entry_sizeAlways(item) ==
  [name |-> item.filename,
   type |-> IF item.isDirectory THEN "folder" ELSE "file",
   size |-> formatFileSize(item.size),
   modified |-> formatDate(item.mtime * 1000),
   permissions |-> item.mode,
   isDirectory |-> item.isDirectory]

\* the function list.map applies
Entry(item) ==
  [name |-> item.filename,
   type |-> IF item.isDirectory THEN "folder" ELSE "file",
   size |-> IF item.isDirectory THEN "-" ELSE formatFileSize(item.size),
   modified |-> formatDate(item.mtime * 1000),
   permissions |-> item.mode,
   isDirectory |-> item.isDirectory]

\* a list_files command arrives on a channel with a session, with the path
\* and the remote directory of this listing
ListInit ==
  \E p \in Paths, l \in SeqsUpTo(Items, MaxItems) :
    listing = [NoListing EXCEPT !.path = p, !.list = l]

\* case 'list_files' past the session check: `data.path || '/'`, readdir
ListFiles ==
  /\ listing.phase = "idle"
  /\ listing' = [listing EXCEPT
                   !.phase = "reading",
                   !.reply.path = IF listing.path = "" THEN "/"
                                  ELSE listing.path]
  /\ UNCHANGED <<bvars, cvars, codec, storage, ui>>

\* readdir's callback without error: the mapped list is sent
ReaddirCallback ==
  /\ listing.phase = "reading"
  /\ listing' = [listing EXCEPT
                   !.phase = "listed",
                   !.reply.type = "file_list",
                   !.reply.files = [i \in 1..Len(listing.list) |->
                                      Entry(listing.list[i])]]
  /\ UNCHANGED <<bvars, cvars, codec, storage, ui>>

\* readdir's callback with an error
ReaddirError ==
  /\ listing.phase = "reading"
  /\ listing' = [listing EXCEPT
                   !.phase = "failed",
                   !.reply = [type |-> "error", path |-> "", files |-> <<>>,
                              error |-> "remote failure"]]
  /\ UNCHANGED <<bvars, cvars, codec, storage, ui>>

ListNext == ListFiles \/ ReaddirCallback \/ ReaddirError

InitList ==
  /\ BridgeInit /\ ClientInit
  /\ codec = NoTransfer /\ storage = NoStorage /\ ListInit /\ ui = NoUi

SpecList == InitList /\ [][ListNext]_vars

\* the formatted size of the listed file of n bytes, if there is one
SizeShown(n, text) ==
  \A i \in 1..Len(listing.reply.files) :
    (~listing.list[i].isDirectory /\ listing.list[i].size = n) =>
       listing.reply.files[i].size = text

\* the size text ends in one of the five units
EndsInUnit(text) ==
  \E u \in 1..Len(units) :
    /\ Len(text) > Len(units[u]) + 1
    /\ SubSeq(text, Len(text) - Len(units[u]), Len(text)) = " " \o units[u]

\* C24: the size shown for a file of n bytes is '0 B' for 0 and otherwise
\* n / 1024^i with two decimals and the i-th of the units B, KB, MB, GB,
\* TB, so it always ends in one of the five; 0, 1023, 1024 and 1048576 are
\* shown as '0 B', '1023.00 B', '1.00 KB' and '1.00 MB'.
C24_FormatFileSize ==
  listing.phase = "listed" =>
    /\ SizeShown(<<>>, "0 B")
    /\ SizeShown(<<1023>>, "1023.00 B")
    /\ SizeShown(<<1, 0>>, "1.00 KB")
    /\ SizeShown(<<1, 0, 0>>, "1.00 MB")
    /\ \A i \in 1..Len(listing.reply.files) :
         ~listing.list[i].isDirectory =>
            EndsInUnit(listing.reply.files[i].size)

\* C25: a successful list_files replies with the requested path, or '/'
\* when none was given, and with one entry per item of the remote
\* directory, in the same order; an entry is a 'folder' with size '-'
\* exactly when the item is a directory, otherwise a 'file' with the
\* formatted size, and isDirectory says the same as type.
C25_ListingFaithful ==
  listing.phase = "listed" =>
    /\ listing.reply.type = "file_list"
    /\ listing.path # "" => listing.reply.path = listing.path
    /\ listing.path = "" => listing.reply.path = "/"
    /\ Len(listing.reply.files) = Len(listing.list)
    /\ \A i \in 1..Len(listing.list) :
         LET item == listing.list[i]
             file == listing.reply.files[i]
         IN  /\ file.name = item.filename
             /\ file.type = "folder" <=> item.isDirectory
             /\ file.size = "-" <=> item.isDirectory
             /\ ~item.isDirectory =>
                  /\ file.type = "file"
                  /\ file.size = formatFileSize(item.size)
             /\ file.isDirectory <=> file.type = "folder"

C25_Witness ==
  /\ listing.phase = "listed"
  /\ listing.path = ""
  /\ Len(listing.list) = 2
  /\ listing.list[1].isDirectory /\ listing.list[1].filename = "b"
  /\ ~listing.list[2].isDirectory /\ listing.list[2].filename = "a"
  /\ listing.reply.files[1].size = "-"
  /\ listing.reply.files[2].size = "1.50 KB"

\* a download_file command whose stat call has not come back
StatPending(op) == op.kind = "download_file" /\ op.stage = "stat"

\* C26: when stat says the path is a directory, download_file is answered
\* with error 'Cannot download a directory' and no read stream is made; when
\* stat fails it is answered with an error; in both cases the command is
\* over, and file_content is sent only by a read stream that ended.
C26_DirectoryNotDownloaded ==
  [][/\ \A op \in ops :
          StatPending(op) =>
            /\ OpCallback(op, "dir") =>
                 /\ out' = <<sendResponse(op.ch, "error",
                               "Cannot download a directory")>>
                 /\ ops' = ops \ {op}
            /\ OpCallback(op, "err") =>
                 /\ Len(out') = 1 /\ out'[1].type = "error"
                 /\ out'[1].ch = op.ch
                 /\ ops' = ops \ {op}
     /\ (ops' # ops /\ \E i \in 1..Len(out') : out'[i].type = "file_content")
          => \E op \in ops \ ops' :
               op.kind = "download_file" /\ op.stage = "stream"
    ]_vars

C26_Witness ==
  \E ch \in Channels :
    /\ out = <<sendResponse(ch, "error", "Cannot download a directory")>>
    /\ ops = {}
    /\ ~NoActiveSftp(activeConnections, ch)

Stored(k, r, role) ==
  /\ k \in DOMAIN eventListeners
  /\ \E i \in 1..Len(eventListeners[k]) :
       eventListeners[k][i] = Handler(r, role)

\* C28: the listener table has a list for each kind of message a call waits
\* for, so while a call is waiting the handlers it registered with once()
\* are in the table under the kinds of its success and error messages.
C28_HandlersStored ==
  \A r \in 1..Len(reqs) :
    (reqs[r].state = "pending" /\ r \in timers) =>
       /\ Stored(SuccessEvent(reqs[r].kind), r, "success")
       /\ Stored(ErrorEvent(reqs[r].kind), r, "error")

\* connection c was replaced on its channel: the closure variable holds
\* another connection
Replaced(c) ==
  /\ conns[c].ch # Null
  /\ sftpClient[conns[c].ch] \notin {Null, c}

\* the registry entry of a channel is the one of its current connection
EntryIsCurrent ==
  \A ch \in DOMAIN activeConnections :
    activeConnections[ch].client = sftpClient[ch]

\* 'close' and 'ready' of a replaced connection leave the registry alone
ReplacedIsInert ==
  \A c \in ConnIds :
    (Replaced(c) /\ (RemoteClose(c) \/ \E t \in BOOLEAN : RemoteReady(c, t)))
       => activeConnections' = activeConnections

\* C29: the registry entry of a channel always belongs to the channel's
\* current remote connection, and the later 'close' or 'ready' of a
\* connection that was replaced neither removes nor overwrites the entry.
C29_EntryOfCurrentConnection ==
  [][EntryIsCurrent' /\ ReplacedIsInert]_vars

\* C30: no callback of the bridge reads through a missing registry entry or
\* a null remote handle: 'ready' never runs while the channel's handle is
\* null, and the sftp() callback never succeeds while the channel has no
\* entry.
C30_NoMissingDereference ==
  [][\A c \in ConnIds :
       /\ (\E t \in BOOLEAN : RemoteReady(c, t)) =>
             sftpClient[conns[c].ch] # Null
       /\ SftpCallback(c, TRUE) =>
             MapHas(activeConnections, conns[c].ch)
    ]_vars

\* the kinds that report a finished transfer
TransferDone == {"upload_success", "file_content"}

\* C31: upload_success is sent only when the write stream finished without
\* an 'error' event and file_content only when the read stream ended
\* without one, so a transfer that was answered with an error is not
\* answered with a success message as well.
C31_OneResponsePerTransfer ==
  [][(ops' # ops /\ \E i \in 1..Len(out') : out'[i].type \in TransferDone)
        => \E op \in ops \ ops' :
             /\ op.kind \in {"upload_file", "download_file"}
             /\ op.stage # "errored"
    ]_vars

\* connect_success was sent for the channel's current remote connection:
\* the entry holds the SFTP handle of the connection the closure variable
\* names (the handle is stored in the step that sends connect_success)
SuccessSent(ch) ==
  /\ sftpClient[ch] # Null
  /\ MapHas(activeConnections, ch)
  /\ activeConnections[ch].sftp = sftpClient[ch]

\* the step sends a disconnect message to the channel
DisconnectSent(ch) ==
  \E i \in 1..Len(out') : out'[i].ch = ch /\ out'[i].type = "disconnect"

\* C32: once connect_success was sent for a channel's current connection,
\* the 'end' and 'close' events of an earlier connection of that channel
\* send the channel no disconnect message.
C32_NoStaleDisconnect ==
  [][\A c \in ConnIds :
       (/\ conns[c].ch # Null
        /\ SuccessSent(conns[c].ch)
        /\ sftpClient[conns[c].ch] # c
        /\ (RemoteEnd(c) \/ RemoteClose(c)))
          => ~DisconnectSent(conns[c].ch)
    ]_vars

\* ------------------------------------------------------ connection provider
\* the provider's effect has run: its 'disconnect' listener is in the table
Subscribed ==
  \E i \in 1..Len(eventListeners["disconnect"]) :
    eventListeners["disconnect"][i].role = "sub"

\* the provider's 'disconnect' listener: setIsConnected(false),
\* setActiveConnection(null)
onDisconnect(u) == [u EXCEPT !.isConnected = FALSE, !.activeConnection = Null]

\* error.message in a catch block: the text of an Error, and undefined for
\* the Event that ws.onerror rejects connectToWebsocket() with
Undefined == "undefined"

ErrorMessage(result) == IF result = "ws_error" THEN Undefined ELSE result

\* the saved connection the user connects to
SavedConnection == 1

\* the client calls made by connectToServer or disconnect that have not
\* settled, or whose awaiting function has not continued yet
InFlight == (1..Len(reqs)) \ ui.done

\* connectToServer(connection) up to its await: the status says connecting,
\* the socket is opened first when it is not open, then connect() is called
connectToServer ==
  /\ Subscribed
  /\ ConnectCallStep
  /\ ui' = [ui EXCEPT !.connecting = TRUE, !.error = ""]
  /\ UNCHANGED <<bvars, codec, storage, listing>>

\* the rest of connectToServer, once its await has settled
connectToServerEnd(r) ==
  /\ r \in InFlight
  /\ reqs[r].kind = "connect"
  /\ reqs[r].state \in {"resolved", "rejected"}
  /\ ui' = IF reqs[r].state = "resolved"
             THEN [ui EXCEPT !.activeConnection = SavedConnection,
                             !.isConnected = TRUE,
                             !.connecting = FALSE,
                             !.error = "",
                             !.done = @ \cup {r},
                             !.result = [success |-> TRUE, error |-> ""]]
             ELSE [ui EXCEPT !.connecting = FALSE,
                             !.error = ErrorMessage(reqs[r].result),
                             !.done = @ \cup {r},
                             !.result =
                                [success |-> FALSE,
                                 error |-> ErrorMessage(reqs[r].result)]]
  /\ UNCHANGED <<bvars, cvars, codec, storage, listing>>

\* the provider's disconnect() up to its await
disconnect ==
  /\ Subscribed
  /\ DisconnectCallStep
  /\ UNCHANGED <<bvars, codec, storage, listing, ui>>

\* the rest of disconnect(): the state is cleared when the call resolved,
\* a rejection is only logged
disconnectEnd(r) ==
  /\ r \in InFlight
  /\ reqs[r].kind = "disconnect"
  /\ reqs[r].state \in {"resolved", "rejected"}
  /\ ui' = IF reqs[r].state = "resolved"
             THEN [onDisconnect(ui) EXCEPT !.done = @ \cup {r}]
             ELSE [ui EXCEPT !.done = @ \cup {r}]
  /\ UNCHANGED <<bvars, cvars, codec, storage, listing>>

\* the messages that concern the connection state
UiMessages ==
  {m \in Messages : m.type \in {"connect_success", "connect_error",
                                "disconnect"}}

\* a message arrives; a 'disconnect' event reaches the provider's listener
UiRecv(m) ==
  /\ RecvStep(m)
  /\ ui' = IF m.type = "disconnect" /\ Subscribed THEN onDisconnect(ui)
           ELSE ui
  /\ UNCHANGED <<bvars, codec, storage, listing>>

\* the socket closes: ws.onclose emits 'disconnect'
UiWsClose ==
  /\ WsCloseEventStep
  /\ ui' = IF Subscribed THEN onDisconnect(ui) ELSE ui
  /\ UNCHANGED <<bvars, codec, storage, listing>>

UiNext ==
  \/ Subscribe
  \/ connectToServer
  \/ \E r \in 1..MaxReq : connectToServerEnd(r)
  \/ disconnect
  \/ \E r \in 1..MaxReq : disconnectEnd(r)
  \/ \E m \in UiMessages : UiRecv(m)
  \/ UiWsClose
  \/ WsOpen
  \/ WsError
  \/ \E r \in 1..MaxReq : TimerFire(r)

SpecUi == Init /\ [][UiNext]_vars

Attempting == \E r \in InFlight : reqs[r].kind = "connect"

\* the connectToServer that just finished succeeded
EndedConnected ==
  /\ ui'.isConnected
  /\ ui'.activeConnection = SavedConnection
  /\ ui'.result = [success |-> TRUE, error |-> ""]

\* the connectToServer that just finished failed with a failure text
EndedWithError ==
  /\ ui'.isConnected = ui.isConnected
  /\ ui'.error \notin {"", Undefined}
  /\ ui'.result = [success |-> FALSE, error |-> ui'.error]

\* C34: connectionStatus.connecting is true only while a connectToServer is
\* in flight; an attempt opens the WebSocket first when it is not open; and
\* every attempt ends with connecting false and either connected, with the
\* active connection set and {success: true}, or with isConnected as it
\* was, the failure text in connectionStatus.error and {success: false,
\* error}.
C34_ConnectAttempt ==
  [][/\ ui'.connecting => Attempting'
     /\ (connectToServer /\ cws # "open") =>
           (cws' = "connecting" /\ sent' = sent)
     /\ \A r \in 1..MaxReq :
          connectToServerEnd(r) =>
             /\ ~ui'.connecting
             /\ EndedConnected \/ EndedWithError
    ]_vars
====
